---- MODULE Spec2Model ----
(***************************************************************************)
(* Closed-loop two-objective solvent optimisation                          *)
(* (case_studies/borrowing_hydrogen/optimization_in_silico.py).            *)
(*                                                                         *)
(* Fixed-point units: conversion and de*100 are carried in hundredths of   *)
(* a percent, the reaction time t in tenths, exp() in thousandths, and     *)
(* the solvent effects Es in fortieths (0.025 = 1/40).  A standard normal  *)
(* sample is an integer in -2..2.                                          *)
(***************************************************************************)
EXTENDS Integers, Sequences, FiniteSets, TLC

\* ---------------------------------------------------------------- bounds
MaxBatchSize == 2
MaxNumBatches == 2
MaxPropSeed == 3
MaxOracleCalls == 2

\* ------------------------------------------------------ program constants
RANDOM_SEED == 1000
NUM_COMPONENTS == 3
NUM_OBJECTIVES == 2
AD1x10 == 85
AD2x10 == 7
EAD1 == 50
EAD2 == 70

Seeds == {RANDOM_SEED, RANDOM_SEED + 1}

\* ---------------------------------------------------------------- helpers
Abs(x) == IF x < 0 THEN -x ELSE x

Min(a, b) == IF a <= b THEN a ELSE b

RECURSIVE SumSeq(_)
SumSeq(s) == IF s = <<>> THEN 0 ELSE Head(s) + SumSeq(Tail(s))

SeqMax(s) == CHOOSE m \in {s[k] : k \in DOMAIN s} : \A k \in DOMAIN s : s[k] <= m

SeqMin(s) == CHOOSE m \in {s[k] : k \in DOMAIN s} : \A k \in DOMAIN s : m <= s[k]

\* np.zeros(shape) for one and two trailing axes
Zeros1(n) == [k \in 1..n |-> 0]

Zeros2(n, m) == [k \in 1..n |-> Zeros1(m)]

\* ndarray.T of a two-axis array with r rows and c columns
TransposeIdentity(a, r, c) == a

Transpose(a, r, c) == [col \in 1..c |-> [row \in 1..r |-> a[row][col]]]

\* ------------------------------------------------ seeded random state
\* np.random.RandomState(seed): a deterministic stream fixed by the seed
RandomState(sd) == sd % 16

RngNext(s) == (5 * s + 3) % 16

RECURSIVE RngAfter(_, _)
RngAfter(s, k) == IF k = 0 THEN s ELSE RngAfter(RngNext(s), k - 1)

\* the k-th randn(1) drawn from state s
Randn(s, k) == (RngAfter(s, k) % 5) - 2

\* ------------------------------------------------------- design space
\* solvent_ds: cas number -> principal components (PC_1, PC_2, PC_3)
Candidates == <<"c1", "c2", "c3", "c4">>

NumCand == Len(Candidates)

PCS == [c \in {Candidates[k] : k \in 1..NumCand} |->
          CASE c = "c1" -> <<0, 0, 0>>
            [] c = "c2" -> <<2, 3, 2>>
            [] c = "c3" -> <<1, 5, 3>>
            [] c = "c4" -> <<0, 10, 3>>]

\* ------------------------------------------------------ test problem
\* np.exp on thousandths: fourth-order series on x/4, then squared twice
ExpFix(x) ==
  LET q == x \div 4
      t4 == 1000 + q \div 4
      t3 == 1000 + (q * t4) \div 3000
      t2 == 1000 + (q * t3) \div 2000
      t1 == 1000 + (q * t2) \div 1000
      sq == (t1 * t1) \div 1000
  IN  (sq * sq) \div 1000

\* Es1 = -20*pc2*abs(pc3) + 0.025*pc1**3, in fortieths
Es1(pc1, pc2, pc3) == -800 * pc2 * Abs(pc3) + pc1 * pc1 * pc1

\* Es2 = 15*pc2*pc3 - 40*pc3**2, in fortieths
Es2(pc1, pc2, pc3) == 600 * pc2 * pc3 - 1600 * pc3 * pc3

\* cd1 = AD1*t*exp(-(EAD1+Es)/T), in hundredths of a percent
cd1(t, T, Es) == (AD1x10 * t * ExpFix((-(1000 * (40 * EAD1 + Es))) \div (40 * T))) \div 1000

cd2(t, T, Es) == (AD2x10 * t * ExpFix((-(1000 * (40 * EAD2 + Es))) \div (40 * T))) \div 1000

\* the oracle with the second noise term added before the clip
experimentClipAfterNoise(solvent_cas, ds, rs) ==
  LET pc_solvent == ds[solvent_cas]
      es1 == Es1(pc_solvent[1], pc_solvent[2], pc_solvent[3])
      es2 == Es2(pc_solvent[1], pc_solvent[2], pc_solvent[3])
      T == 5 * Randn(rs, 1) + 393
      t == Randn(rs, 2) + 70
      exper_cd1 == cd1(t, T, es1)
      exper_cd2 == cd2(t, T, es2)
      max_conversion == 9500 + Randn(rs, 3) * 200
      conversion_noise == Randn(rs, 4) * 200
      raw_de == (10000 * Abs(exper_cd1 - exper_cd2)) \div (exper_cd1 + exper_cd2)
      max_de == 9800 + Randn(rs, 5) * 200
      de_noise == Randn(rs, 6) * 200
  IN  [cas |-> solvent_cas,
       conversion |-> Min(max_conversion, exper_cd1 + exper_cd2 + conversion_noise),
       de |-> Min(max_de, raw_de + de_noise),
       raw_conversion |-> exper_cd1 + exper_cd2,
       max_conversion |-> max_conversion,
       conversion_noise |-> conversion_noise,
       raw_de |-> raw_de,
       max_de |-> max_de,
       de_noise |-> de_noise,
       random_state |-> RngAfter(rs, 6)]

\* experiment(solvent_cas, solvent_ds, random_state): the two objective
\* values, the intermediate terms they were built from, and the random
\* state after the six draws
experiment(solvent_cas, ds, rs) ==
  LET pc_solvent == ds[solvent_cas]
      es1 == Es1(pc_solvent[1], pc_solvent[2], pc_solvent[3])
      es2 == Es2(pc_solvent[1], pc_solvent[2], pc_solvent[3])
      T == 5 * Randn(rs, 1) + 393
      t == Randn(rs, 2) + 70
      exper_cd1 == cd1(t, T, es1)
      exper_cd2 == cd2(t, T, es2)
      max_conversion == 9500 + Randn(rs, 3) * 200
      conversion_noise == Randn(rs, 4) * 200
      raw_de == (10000 * Abs(exper_cd1 - exper_cd2)) \div (exper_cd1 + exper_cd2)
      max_de == 9800 + Randn(rs, 5) * 200
      de_noise == Randn(rs, 6) * 200
  IN  [cas |-> solvent_cas,
       conversion |-> Min(max_conversion, exper_cd1 + exper_cd2) + conversion_noise,
       de |-> Min(max_de, raw_de) + de_noise,
       raw_conversion |-> exper_cd1 + exper_cd2,
       max_conversion |-> max_conversion,
       conversion_noise |-> conversion_noise,
       raw_de |-> raw_de,
       max_de |-> max_de,
       de_noise |-> de_noise,
       random_state |-> RngAfter(rs, 6)]

\* ------------------------------------------------ history as arrays
\* one row of the experiment DataSet; oracle keeps the call that made it
Observation(idx, cas, res) ==
  [index |-> idx, conversion |-> res.conversion, de |-> res.de,
   solvent |-> cas, oracle |-> res]

\* inputs X [n, D]: the descriptors of each row's solvent
InputsOf(hist) == [k \in 1..Len(hist) |-> PCS[hist[k].solvent]]

\* outputs Y [n, M]
OutputsOf(hist) == [k \in 1..Len(hist) |-> <<hist[k].conversion, hist[k].de>>]

\* y[:, j]
Column(y, j) == [k \in 1..Len(y) |-> y[k][j]]

\* --------------------------------------------- surrogate model pair
\* GPyModel.fit(X, Y_column): ARD lengthscales (one per input dimension,
\* non-negative) and a log-likelihood, both functions of the training data
Fit(x, ycol) ==
  LET n == Len(x)
      mean == SumSeq(ycol) \div n
  IN  [lengthscale |-> [d \in 1..NUM_COMPONENTS |->
                          1 + SeqMax(Column(x, d)) - SeqMin(Column(x, d))],
       log_likelihood |-> -(n + SumSeq([k \in 1..n |-> Abs(ycol[k] - mean)]) \div 100),
       n |-> n]

\* the not-a-number a model reports after a fit that did not converge
NaN == -1000000

IsNaN(v) == v = NaN

\* the models after fit: the fitted values, or not-a-number hyperparameters
\* and likelihood when the optimisation did not converge
FitOutcome(x, ycol, converged) ==
  IF converged
    THEN Fit(x, ycol)
    ELSE [lengthscale |-> [d \in 1..NUM_COMPONENTS |-> NaN],
          log_likelihood |-> NaN,
          n |-> Len(x)]

\* loo_error(x, y): withhold each observation, predict it from the others,
\* aggregate the residuals
loo_error(x, ycol) ==
  LET n == Len(x)
      others(k) == IF n = 1 THEN 0 ELSE (SumSeq(ycol) - ycol[k]) \div (n - 1)
  IN  SumSeq([k \in 1..n |-> Abs(ycol[k] - others(k))]) \div n

\* ---------------------------------------------------- batch proposer
\* TSEMO's candidate selection: batch_size members of the domain, fixed by
\* the fitted models, the data and the strategy's own random source
Propose(models, x, bs, ps) ==
  [k \in 1..bs |->
     LET ll == IF IsNaN(models[1].log_likelihood) THEN 0
               ELSE Abs(models[1].log_likelihood)
         ls == IF IsNaN(models[2].lengthscale[2]) THEN 0
               ELSE models[2].lengthscale[2]
     IN  Candidates[((ps + k + Len(x) + ll + ls) % NumCand) + 1]]

\* ------------------------------------------------- initial design
\* LatinDesigner(domain, random_state).generate_experiments(batch_size):
\* bs distinct members of the domain, placed by one draw
LatinDesign(bs, rs) ==
  LET start == RngAfter(rs, 1) % NumCand
  IN  [design |-> [k \in 1..bs |-> Candidates[((start + k - 1) % NumCand) + 1]],
       random_state |-> RngAfter(rs, 1)]

\* initial_experiments.merge(design_ds, left_index=True, right_index=True)
MergeOnIndex(results, design_ds) ==
  [k \in 1..Min(Len(results), Len(design_ds)) |->
     Observation(k - 1, design_ds[k], results[k])]

\* ------------------------------------------------------------- state
VARIABLES
  seed, batch_size, num_batches, solvent_ds,   \* configuration of the run
  random_state,          \* the module's seeded RandomState
  prop_seed,             \* random source of the TSEMO strategy
  pc,                    \* position in the script
  err,                   \* the exception that ended the run, if any
  i,                     \* loop index of run_optimization
  initial_design, initial_experiments,
  previous_experiments,  \* the History
  tsemo,                 \* the strategy object: x, y, models
  design, new_experiments,
  lengthscales, log_likelihoods, loo_errors,
  used_obs,              \* per recorded round, the rows of tsemo.x it read
  steps,                 \* the steps of the current round, in order
  round_start,           \* History and diagnostics at the loop head
  returned, outputs,
  run_no, archive        \* a second run of the script and the first's result

config == <<seed, batch_size, num_batches, solvent_ds>>

diagnostics == <<lengthscales, log_likelihoods, loo_errors, used_obs>>

results == <<returned, outputs>>

runs == <<run_no, archive>>

vars == <<seed, batch_size, num_batches, solvent_ds, random_state, prop_seed,
          pc, err, i, initial_design, initial_experiments,
          previous_experiments, tsemo, design, new_experiments,
          lengthscales, log_likelihoods, loo_errors, used_obs, steps,
          round_start, returned, outputs, run_no, archive>>

NoError == [type |-> "none", step |-> "none"]

\* optimization_setup(domain): two unfitted models
optimization_setup == [x |-> <<>>, y |-> <<>>, models |-> <<>>]

NoResult == [none |-> TRUE]

\* the state of a freshly started script
Fresh ==
  /\ random_state = RandomState(seed)
  /\ pc = "start"
  /\ err = NoError
  /\ i = 0
  /\ initial_design = <<>>
  /\ initial_experiments = <<>>
  /\ previous_experiments = <<>>
  /\ tsemo = optimization_setup
  /\ design = <<>>
  /\ new_experiments = <<>>
  /\ lengthscales = <<>>
  /\ log_likelihoods = <<>>
  /\ loo_errors = <<>>
  /\ used_obs = <<>>
  /\ steps = <<>>
  /\ round_start = NoResult
  /\ returned = NoResult
  /\ outputs = NoResult

Init ==
  /\ seed \in Seeds
  /\ batch_size \in 1..MaxBatchSize
  /\ num_batches \in 1..MaxNumBatches
  /\ solvent_ds = PCS
  /\ prop_seed \in 0..MaxPropSeed
  /\ run_no = 1
  /\ archive = NoResult
  /\ Fresh

\* ---------------------------------- generate_initial_experiment_data
\* lhs.generate_experiments(batch_size)
GenerateInitialDesign ==
  /\ pc = "start"
  /\ LET lhs == LatinDesign(batch_size, random_state)
     IN  /\ initial_design' = lhs.design
         /\ random_state' = lhs.random_state
  /\ pc' = "initial_experiments"
  /\ UNCHANGED <<config, prop_seed, err, i, initial_experiments,
                 previous_experiments, tsemo, design, new_experiments,
                 diagnostics, steps, round_start, results, runs>>

\* the exception solvent_ds.loc[solvent_cas] raises for a label the data
\* set does not hold; no caller handles it
KeyError(where) == [type |-> "KeyError", step |-> where]

\* one element of [experiment(cas, solvent_ds, random_state) for cas in ...].
\* experiment() looks the solvent up before it draws anything: a solvent the
\* data set does not hold raises, and the exception ends the run with the
\* random stream where it was.
InitialExperiment ==
  /\ pc = "initial_experiments"
  /\ Len(initial_experiments) < batch_size
  /\ LET cas == initial_design[Len(initial_experiments) + 1]
     IN  IF cas \in DOMAIN solvent_ds
           THEN LET res == experiment(cas, solvent_ds, random_state)
                IN  /\ initial_experiments' = Append(initial_experiments, res)
                    /\ random_state' = res.random_state
                    /\ UNCHANGED <<pc, err>>
           ELSE /\ pc' = "failed"
                /\ err' = KeyError("initial_experiment")
                /\ UNCHANGED <<initial_experiments, random_state>>
  /\ UNCHANGED <<config, prop_seed, i, initial_design,
                 previous_experiments, tsemo, design, new_experiments,
                 diagnostics, steps, round_start, results, runs>>

\* DataSet.from_df(...) and the merge with the design on the index
MergeInitialData ==
  /\ pc = "initial_experiments"
  /\ Len(initial_experiments) = batch_size
  /\ initial_experiments' = MergeOnIndex(initial_experiments, initial_design)
  /\ pc' = "run_optimization"
  /\ UNCHANGED <<config, random_state, prop_seed, err, i, initial_design,
                 previous_experiments, tsemo, design, new_experiments,
                 diagnostics, steps, round_start, results, runs>>

\* ------------------------------------------------------ run_optimization
Snapshot(hist, ls, ll, loo) ==
  [previous_experiments |-> hist, lengthscales |-> ls,
   log_likelihoods |-> ll, loo_errors |-> loo]

\* the storage arrays and previous_experiments = initial_experiments
EnterRunOptimization ==
  /\ pc = "run_optimization"
  /\ lengthscales' = [k \in 1..num_batches |-> Zeros2(NUM_COMPONENTS, NUM_OBJECTIVES)]
  /\ log_likelihoods' = Zeros2(num_batches, NUM_OBJECTIVES)
  /\ loo_errors' = Zeros2(num_batches, NUM_OBJECTIVES)
  /\ previous_experiments' = initial_experiments
  /\ i' = 0
  /\ round_start' = Snapshot(previous_experiments', lengthscales',
                             log_likelihoods', loo_errors')
  /\ pc' = "loop"
  /\ UNCHANGED <<config, random_state, prop_seed, err, initial_design,
                 initial_experiments, tsemo, design, new_experiments,
                 used_obs, steps, results, runs>>

\* a call that passes the first batch again instead of the History
FitHistoryStale == initial_experiments

\* the History handed to tsemo.generate_experiments
FitHistory == previous_experiments

\* tsemo.generate_experiments(previous_experiments, batch_size): the
\* strategy refits both models on the data it is given, keeps that data as
\* tsemo.x / tsemo.y, and returns the design.  Each fit either converges or
\* ends with not-a-number values; the call returns normally in both cases
\* and run_optimization does not look at the outcome.
GenerateExperiments ==
  /\ pc = "loop"
  /\ i < num_batches
  /\ \E converged \in [1..NUM_OBJECTIVES -> BOOLEAN] :
       LET x == InputsOf(FitHistory)
           y == OutputsOf(FitHistory)
           models == [j \in 1..NUM_OBJECTIVES |->
                        FitOutcome(x, Column(y, j), converged[j])]
       IN  /\ tsemo' = [x |-> x, y |-> y, models |-> models]
           /\ design' = Propose(models, x, batch_size, prop_seed)
  /\ new_experiments' = <<>>
  /\ steps' = <<"fit", "propose">>
  /\ pc' = "diagnostics"
  /\ UNCHANGED <<config, random_state, prop_seed, err, i, initial_design,
                 initial_experiments, previous_experiments, diagnostics,
                 round_start, results, runs>>

\* the call raises (the failure the strategy signals for a fit it gives up
\* on); run_optimization has no handler, so the exception leaves the loop.
\* The strategy may or may not have taken the new data before it raised.
GenerateExperimentsRaises ==
  /\ pc = "loop"
  /\ i < num_batches
  /\ \E stored \in BOOLEAN :
       tsemo' = IF stored
                  THEN [tsemo EXCEPT !.x = InputsOf(FitHistory),
                                     !.y = OutputsOf(FitHistory)]
                  ELSE tsemo
  /\ steps' = <<"fit">>
  /\ pc' = "failed"
  /\ err' = [type |-> "ModelFitFailure", step |-> "generate_experiments"]
  /\ UNCHANGED <<config, random_state, prop_seed, i, initial_design,
                 initial_experiments, previous_experiments, design,
                 new_experiments, diagnostics, round_start, results, runs>>

\* lengthscales[i,:,:], log_likelihoods[i,:] and loo_errors[i,j], read from
\* tsemo.models, tsemo.x and tsemo.y
RecordDiagnostics ==
  /\ pc = "diagnostics"
  /\ lengthscales' = [lengthscales EXCEPT ![i + 1] =
       Transpose([j \in 1..NUM_OBJECTIVES |-> tsemo.models[j].lengthscale],
                 NUM_OBJECTIVES, NUM_COMPONENTS)]
  /\ log_likelihoods' = [log_likelihoods EXCEPT ![i + 1] =
       [j \in 1..NUM_OBJECTIVES |-> tsemo.models[j].log_likelihood]]
  /\ loo_errors' = [loo_errors EXCEPT ![i + 1] =
       [j \in 1..NUM_OBJECTIVES |-> loo_error(tsemo.x, Column(tsemo.y, j))]]
  /\ used_obs' = Append(used_obs, Len(tsemo.x))
  /\ steps' = Append(steps, "record")
  /\ pc' = "experiments"
  /\ UNCHANGED <<config, random_state, prop_seed, err, i, initial_design,
                 initial_experiments, previous_experiments, tsemo, design,
                 new_experiments, round_start, results, runs>>

\* an evaluation loop that starts before the diagnostics are written
RunExperimentEarly ==
  /\ pc = "diagnostics"
  /\ Len(new_experiments) < batch_size
  /\ LET cas == design[Len(new_experiments) + 1]
     IN  IF cas \in DOMAIN solvent_ds
           THEN LET res == experiment(cas, solvent_ds, random_state)
                IN  /\ new_experiments' = Append(new_experiments, res)
                    /\ random_state' = res.random_state
                    /\ UNCHANGED <<pc, err>>
           ELSE /\ pc' = "failed"
                /\ err' = KeyError("experiment")
                /\ UNCHANGED <<new_experiments, random_state>>
  /\ steps' = Append(steps, "evaluate")
  /\ UNCHANGED <<config, prop_seed, i, initial_design,
                 initial_experiments, previous_experiments, tsemo, design,
                 diagnostics, round_start, results, runs>>

\* one element of [experiment(cas, solvent_ds, random_state)
\*                 for cas in design.index.values]; a solvent the data set
\* does not hold raises, after this round's diagnostics were written and
\* before the History is appended
RunExperiment ==
  /\ pc = "experiments"
  /\ Len(new_experiments) < batch_size
  /\ LET cas == design[Len(new_experiments) + 1]
     IN  IF cas \in DOMAIN solvent_ds
           THEN LET res == experiment(cas, solvent_ds, random_state)
                IN  /\ new_experiments' = Append(new_experiments, res)
                    /\ random_state' = res.random_state
                    /\ UNCHANGED <<pc, err>>
           ELSE /\ pc' = "failed"
                /\ err' = KeyError("experiment")
                /\ UNCHANGED <<new_experiments, random_state>>
  /\ steps' = Append(steps, "evaluate")
  /\ UNCHANGED <<config, prop_seed, i, initial_design,
                 initial_experiments, previous_experiments, tsemo, design,
                 diagnostics, round_start, results, runs>>

\* an index that restarts at the previous block
NewIndexOffByOne(bs, round) == [k \in 1..bs |-> bs * round + (k - 1)]

\* np.arange(batch_size*(i+1), batch_size*(i+2))
NewIndex(bs, round) == [k \in 1..bs |-> bs * (round + 1) + (k - 1)]

\* an assignment that keeps only the new batch
AppendDataSetReplacing(prev, new) == new

\* previous_experiments.append(new_experiments)
AppendDataSet(prev, new) == prev \o new

\* the new DataSet (conversion, de, solvent), its index, and the append
CombineData ==
  /\ pc = "experiments"
  /\ Len(new_experiments) = batch_size
  /\ LET index == NewIndex(batch_size, i)
         rows == [k \in 1..Len(index) |->
                    Observation(index[k], design[k], new_experiments[k])]
     IN  previous_experiments' = AppendDataSet(previous_experiments, rows)
  /\ i' = i + 1
  /\ steps' = Append(steps, "append")
  /\ round_start' = Snapshot(previous_experiments', lengthscales,
                             log_likelihoods, loo_errors)
  /\ pc' = "loop"
  /\ UNCHANGED <<config, random_state, prop_seed, err, initial_design,
                 initial_experiments, tsemo, design, new_experiments,
                 diagnostics, results, runs>>

\* a return that drops the last array
ReturnValueShort(ls, ll, loo) ==
  [lengthscales |-> ls, log_likelihoods |-> ll]

\* return lengthscales, log_likelihoods, loo_errors,
ReturnValue(ls, ll, loo) ==
  [lengthscales |-> ls, log_likelihoods |-> ll, loo_errors |-> loo]

ReturnDiagnostics ==
  /\ pc = "loop"
  /\ i = num_batches
  /\ returned' = ReturnValue(lengthscales, log_likelihoods, loo_errors)
  /\ pc' = "done"
  /\ UNCHANGED <<config, random_state, prop_seed, err, i, initial_design,
                 initial_experiments, previous_experiments, tsemo, design,
                 new_experiments, diagnostics, steps, round_start, outputs,
                 runs>>

\* ------------------------------------------------------------- __main__
\* np.save of the three arrays and the metadata file
SaveOutputs ==
  /\ pc = "done"
  /\ outputs' = [in_silico_lengthscales |-> returned.lengthscales,
                 in_silico_log_likelihoods |-> returned.log_likelihoods,
                 in_silico_loo_errors |-> returned.loo_errors,
                 in_silico_metadata |-> <<seed, NUM_COMPONENTS, num_batches, batch_size>>]
  /\ pc' = "saved"
  /\ UNCHANGED <<config, random_state, prop_seed, err, i, initial_design,
                 initial_experiments, previous_experiments, tsemo, design,
                 new_experiments, diagnostics, steps, round_start, returned,
                 runs>>

\* the script is run a second time with the same seed, design space and
\* oracle; the strategy's own random source is whatever the process has
RunAgain ==
  /\ pc = "saved"
  /\ run_no = 1
  /\ run_no' = 2
  /\ archive' = Snapshot(previous_experiments, lengthscales,
                         log_likelihoods, loo_errors)
  /\ prop_seed' \in 0..MaxPropSeed
  /\ random_state' = RandomState(seed)
  /\ pc' = "start"
  /\ err' = NoError
  /\ i' = 0
  /\ initial_design' = <<>>
  /\ initial_experiments' = <<>>
  /\ previous_experiments' = <<>>
  /\ tsemo' = optimization_setup
  /\ design' = <<>>
  /\ new_experiments' = <<>>
  /\ lengthscales' = <<>>
  /\ log_likelihoods' = <<>>
  /\ loo_errors' = <<>>
  /\ used_obs' = <<>>
  /\ steps' = <<>>
  /\ round_start' = NoResult
  /\ returned' = NoResult
  /\ outputs' = NoResult
  /\ UNCHANGED config

Next ==
  \/ GenerateInitialDesign
  \/ InitialExperiment
  \/ MergeInitialData
  \/ EnterRunOptimization
  \/ GenerateExperiments
  \/ GenerateExperimentsRaises
  \/ RecordDiagnostics
  \/ RunExperiment
  \/ CombineData
  \/ ReturnDiagnostics
  \/ SaveOutputs

Spec == Init /\ [][Next]_vars

\* one execution of the script followed by a second one
NextTwoRuns == Next \/ RunAgain

SpecTwoRuns == Init /\ [][NextTwoRuns]_vars

\* ------------------------------------------------- the oracle alone
\* experiment() called on any solvent of the data set from any state of the
\* random stream
InitOracle ==
  /\ seed = RANDOM_SEED
  /\ batch_size = 1
  /\ num_batches = 1
  /\ solvent_ds = PCS
  /\ prop_seed = 0
  /\ run_no = 1
  /\ archive = NoResult
  /\ random_state \in 0..15
  /\ pc = "oracle"
  /\ err = NoError
  /\ i = 0
  /\ initial_design = <<>>
  /\ initial_experiments = <<>>
  /\ previous_experiments = <<>>
  /\ tsemo = optimization_setup
  /\ design \in {<<c>> : c \in DOMAIN PCS}
  /\ new_experiments = <<>>
  /\ lengthscales = <<>>
  /\ log_likelihoods = <<>>
  /\ loo_errors = <<>>
  /\ used_obs = <<>>
  /\ steps = <<>>
  /\ round_start = NoResult
  /\ returned = NoResult
  /\ outputs = NoResult

OracleCall ==
  /\ pc = "oracle"
  /\ Len(new_experiments) < MaxOracleCalls
  /\ IF design[1] \in DOMAIN solvent_ds
       THEN LET res == experiment(design[1], solvent_ds, random_state)
            IN  /\ new_experiments' = Append(new_experiments, res)
                /\ random_state' = res.random_state
                /\ UNCHANGED <<pc, err>>
       ELSE /\ pc' = "failed"
            /\ err' = KeyError("experiment")
            /\ UNCHANGED <<new_experiments, random_state>>
  /\ UNCHANGED <<config, prop_seed, i, initial_design,
                 initial_experiments, previous_experiments, tsemo, design,
                 diagnostics, steps, round_start, results, runs>>

NextOracle == OracleCall

SpecOracle == InitOracle /\ [][NextOracle]_vars

\* ================================================================ claims
InRound == pc \in {"loop", "diagnostics", "experiments", "done", "saved"}
             \/ (pc = "failed" /\ err.step \in {"generate_experiments", "experiment"})

Finished == pc \in {"done", "saved"}

Shape2(a, n, m) == Len(a) = n /\ \A k \in 1..n : Len(a[k]) = m

Shape3(a, n, m, l) == Len(a) = n /\ \A k \in 1..n : Shape2(a[k], m, l)

\* C1: after round k (k = 0 the initial design, i rounds completed so far)
\* the History holds exactly batch_size*(k+1) observations; before the
\* initial design is merged it is empty.
C1_HistoryLength ==
  /\ InRound => Len(previous_experiments) = batch_size * (i + 1)
  /\ ~InRound => previous_experiments = <<>>

C1_Witness ==
  /\ pc = "loop"
  /\ i = num_batches
  /\ i >= 2
  /\ batch_size >= 2
  /\ Len(previous_experiments) = batch_size * (i + 1)

\* C2: the record of loop round r-1 (0-based) was read from a model and data
\* holding exactly the first batch_size*r observations of the History: its
\* leave-one-out error is that of the prefix, and its lengthscales and
\* log-likelihood are those of the fit on the prefix (not-a-number where that
\* fit did not converge).
C2_DiagnosticsFromPreRoundHistory ==
  \A r \in 1..Len(used_obs) :
    LET pre == SubSeq(previous_experiments, 1, batch_size * r)
        x == InputsOf(pre)
        y == OutputsOf(pre)
    IN  /\ used_obs[r] = batch_size * r
        /\ \A j \in 1..NUM_OBJECTIVES :
             /\ loo_errors[r][j] = loo_error(x, Column(y, j))
             /\ \/ /\ log_likelihoods[r][j] = Fit(x, Column(y, j)).log_likelihood
                   /\ \A d \in 1..NUM_COMPONENTS :
                        lengthscales[r][d][j] = Fit(x, Column(y, j)).lengthscale[d]
                \/ /\ IsNaN(log_likelihoods[r][j])
                   /\ \A d \in 1..NUM_COMPONENTS : IsNaN(lengthscales[r][d][j])

C2_Witness ==
  /\ Len(used_obs) = 2
  /\ used_obs[2] = 2 * batch_size
  /\ Len(previous_experiments) = 3 * batch_size
  /\ loo_errors[2] # loo_errors[1]
  /\ ~IsNaN(log_likelihoods[2][1])

\* C3 as claimed: at the end of a run lengthscales has shape
\* [num_batches, num_objectives, num_feature_dimensions].
C3_LengthscalesObjectiveMajor ==
  Finished =>
    /\ Shape2(log_likelihoods, num_batches, NUM_OBJECTIVES)
    /\ Shape2(loo_errors, num_batches, NUM_OBJECTIVES)
    /\ Shape3(lengthscales, num_batches, NUM_OBJECTIVES, NUM_COMPONENTS)

\* C3 amended: at the end of a run every round has been recorded once,
\* log-likelihood and leave-one-out error have shape [num_batches, 2], and
\* lengthscales is indexed [round, feature-dimension, objective] with shape
\* [num_batches, num_feature_dimensions, 2].
C3_LengthscalesDimensionMajor ==
  Finished =>
    /\ Len(used_obs) = num_batches
    /\ Shape2(log_likelihoods, num_batches, NUM_OBJECTIVES)
    /\ Shape2(loo_errors, num_batches, NUM_OBJECTIVES)
    /\ Shape3(lengthscales, num_batches, NUM_COMPONENTS, NUM_OBJECTIVES)
    /\ \A d \in 1..NUM_COMPONENTS : \A j \in 1..NUM_OBJECTIVES :
         lengthscales[num_batches][d][j] = tsemo.models[j].lengthscale[d]

C3_Witness ==
  /\ pc = "done"
  /\ num_batches = 2
  /\ Len(lengthscales[2]) = NUM_COMPONENTS
  /\ lengthscales[2][2][1] > 0

\* C4 as claimed: at DONE the caller receives the three diagnostics arrays
\* and the final History.
C4_ReturnsDiagnosticsAndHistory ==
  Finished =>
    /\ {"lengthscales", "log_likelihoods", "loo_errors"} \subseteq DOMAIN returned
    /\ "previous_experiments" \in DOMAIN returned

\* C4 amended: at DONE the caller receives exactly the three diagnostics
\* arrays as they stand after the last round, and the script saves those
\* three; the final History is not part of what is returned.
C4_ReturnsDiagnosticsOnly ==
  /\ Finished =>
       returned = [lengthscales |-> lengthscales,
                   log_likelihoods |-> log_likelihoods,
                   loo_errors |-> loo_errors]
  /\ pc = "saved" =>
       /\ outputs.in_silico_lengthscales = lengthscales
       /\ outputs.in_silico_log_likelihoods = log_likelihoods
       /\ outputs.in_silico_loo_errors = loo_errors

C4_Witness ==
  /\ pc = "saved"
  /\ num_batches = 2
  /\ Len(previous_experiments) = batch_size * (num_batches + 1)
  /\ outputs.in_silico_loo_errors = loo_errors

AllConverged(ll) == \A r \in DOMAIN ll : \A j \in DOMAIN ll[r] : ~IsNaN(ll[r][j])

\* C5: a second run with the same seed, design space and oracle, in which
\* every fit converged as in the first, ends with the same History and the
\* same diagnostics as the first.
C5_SeededRunsIdentical ==
  (run_no = 2 /\ pc = "done" /\ AllConverged(log_likelihoods)
     /\ AllConverged(archive.log_likelihoods)) =>
    /\ previous_experiments = archive.previous_experiments
    /\ lengthscales = archive.lengthscales
    /\ log_likelihoods = archive.log_likelihoods
    /\ loo_errors = archive.loo_errors

NonConverged ==
  \E j \in DOMAIN tsemo.models : IsNaN(tsemo.models[j].log_likelihood)

\* a step of the current round has failed: the proposal call or an oracle
\* call raised, or a fit of the round ended without converging
RoundFailed ==
  \/ (pc = "failed" /\ err.step \in {"generate_experiments", "experiment"})
  \/ (NonConverged /\ pc \in {"diagnostics", "experiments"})

\* C6: when a step of a round fails, the round is aborted and History and
\* diagnostics are both as they were at the start of that round.
C6_FailedRoundLeavesBothUnchanged ==
  RoundFailed =>
    /\ pc = "failed"
    /\ previous_experiments = round_start.previous_experiments
    /\ lengthscales = round_start.lengthscales
    /\ log_likelihoods = round_start.log_likelihoods
    /\ loo_errors = round_start.loo_errors

\* C7: a fit that does not converge in round i ends the run with
\* ModelFitFailure: the controller never goes on with a not-a-number model,
\* no not-a-number entry is ever recorded, and once the failure is signalled
\* nothing of round i is recorded, proposed or evaluated and no later round
\* or return follows.
C7_FitFailureStopsRound ==
  /\ NonConverged => (pc = "failed" /\ err.type = "ModelFitFailure")
  /\ \A r \in DOMAIN log_likelihoods : \A j \in 1..NUM_OBJECTIVES :
       /\ ~IsNaN(log_likelihoods[r][j])
       /\ \A d \in 1..NUM_COMPONENTS : ~IsNaN(lengthscales[r][d][j])
  /\ err.type = "ModelFitFailure" =>
       /\ pc = "failed"
       /\ steps = <<"fit">>
       /\ Len(used_obs) = i
       /\ Len(previous_experiments) = batch_size * (i + 1)
       /\ returned = NoResult

Precedes(a, b) ==
  \A p \in DOMAIN steps : steps[p] = b => \E q \in 1..(p - 1) : steps[q] = a

\* C8 as claimed: in a round the diagnostics record is written before the
\* candidates are proposed, and candidates are evaluated after both.
C8_RecordBeforePropose ==
  /\ Precedes("fit", "record")
  /\ Precedes("record", "propose")
  /\ Precedes("propose", "evaluate")
  /\ Precedes("evaluate", "append")

RoundOrder(bs) ==
  <<"fit", "propose", "record">> \o [k \in 1..bs |-> "evaluate"] \o <<"append">>

\* C8 amended: in a round the steps happen in the order fit, propose, record
\* diagnostics, evaluate (once per candidate), append: the candidates exist
\* before the record is written, and they are evaluated only after both.
C8_ProposeBeforeRecord ==
  /\ Len(steps) <= batch_size + 4
  /\ steps = SubSeq(RoundOrder(batch_size), 1, Len(steps))

C8_Witness ==
  /\ batch_size = 2
  /\ i = 2
  /\ steps = <<"fit", "propose", "record", "evaluate", "evaluate", "append">>

OracleCalls ==
  {previous_experiments[k].oracle : k \in DOMAIN previous_experiments}
    \cup {new_experiments[k] : k \in DOMAIN new_experiments}

\* C9 as claimed: each objective value equals
\* min(ceiling + noise_a, raw + noise_b) and so never exceeds the noisy
\* ceiling of its call.
C9_ClipAfterNoise ==
  \A c \in OracleCalls :
    /\ c.conversion = Min(c.max_conversion, c.raw_conversion + c.conversion_noise)
    /\ c.de = Min(c.max_de, c.raw_de + c.de_noise)
    /\ c.conversion <= c.max_conversion
    /\ c.de <= c.max_de

\* C9 amended: each objective value equals
\* min(ceiling + noise_a, raw) + noise_b, so it never exceeds the noisy
\* ceiling by more than the second noise term.
C9_ClipBeforeNoise ==
  \A c \in OracleCalls :
    /\ c.conversion = Min(c.max_conversion, c.raw_conversion) + c.conversion_noise
    /\ c.de = Min(c.max_de, c.raw_de) + c.de_noise
    /\ c.conversion <= c.max_conversion + c.conversion_noise
    /\ c.de <= c.max_de + c.de_noise

C9_Witness ==
  \E c \in OracleCalls :
    /\ c.raw_conversion > c.max_conversion
    /\ c.conversion_noise > 0
    /\ c.conversion > c.max_conversion
    /\ c.raw_de < c.max_de

\* C10: every step of a run keeps the rows the History already has, in
\* place; a round's append puts the batch after them in proposal order, each
\* row carrying the candidate its values were measured on; and the index of
\* the whole History is strictly increasing.
C10_AppendKeepsOrderAndIndex ==
  [][ run_no' = run_no =>
        /\ Len(previous_experiments') >= Len(previous_experiments)
        /\ SubSeq(previous_experiments', 1, Len(previous_experiments)) = previous_experiments
        /\ \A k \in DOMAIN previous_experiments' :
             previous_experiments'[k].oracle.cas = previous_experiments'[k].solvent
        /\ (pc = "experiments" /\ pc' = "loop") =>
             \A k \in 1..batch_size :
               LET row == previous_experiments'[Len(previous_experiments) + k]
               IN  /\ row.solvent = design[k]
                   /\ row.conversion = new_experiments[k].conversion
                   /\ row.de = new_experiments[k].de
        /\ \A k \in 1..(Len(previous_experiments') - 1) :
             previous_experiments'[k].index < previous_experiments'[k + 1].index
    ]_vars

C10_Witness ==
  /\ i = 2
  /\ batch_size = 2
  /\ Len(previous_experiments) = 6
  /\ \A k \in 1..6 : previous_experiments[k].index = k - 1
  /\ previous_experiments[3].solvent # previous_experiments[5].solvent

====
